---- MODULE Spec2Model ----
(***************************************************************************)
(* Position/length arithmetic of src/runtime/length.h.                     *)
(*                                                                         *)
(* TSLength is a record [bytes, chars] and TSPoint a record [line, column] *)
(* of unsigned words (size_t).  The word is modelled WordBits wide, so     *)
(* every sum and difference is taken modulo 2^WordBits, as the unsigned    *)
(* arithmetic of the header is modulo 2^64.                                *)
(*                                                                         *)
(* The functions of the header are operators.  Three specifications apply  *)
(* them:                                                                   *)
(*   LengthSpec  one call of the length operations on arbitrary operands,  *)
(*   PointSpec   one call of the point operations on arbitrary operands,   *)
(*   AccumSpec   a running length grown from ts_length_zero() by repeated  *)
(*               ts_length_add, as a lexer or tree builder does.           *)
(***************************************************************************)
EXTENDS Integers

VARIABLES
    op,               \* the operation that produced the result, "none" before the call
    len1, len2,       \* TSLength operands
    lresult,          \* TSLength result
    point1, point2,   \* TSPoint operands
    presult,          \* TSPoint result
    acc,              \* the running TSLength of the accumulation
    lastKind,         \* kind of the span added last to acc
    poisoned,         \* an indeterminate span has been added to acc
    charsOverflowed,  \* some add to acc carried out of the chars field
    bytesOverflowed,  \* some add to acc carried out of the bytes field
    operandsValid     \* every span added to acc was normal or indeterminate

vars == << op, len1, len2, lresult, point1, point2, presult,
           acc, lastKind, poisoned, charsOverflowed, bytesOverflowed, operandsValid >>

lengthVars == << len1, len2, lresult >>
pointVars  == << point1, point2, presult >>
accumVars  == << acc, lastKind, poisoned, charsOverflowed, bytesOverflowed, operandsValid >>

----------------------------------------------------------------------------
(* The unsigned word *)

WordBits == 3

Modulus == 2 ^ WordBits

Word == 0 .. (Modulus - 1)

\* size_t + size_t
size_add(x, y) == (x + y) % Modulus

\* size_t - size_t
size_sub(x, y) == (x + Modulus - y) % Modulus

----------------------------------------------------------------------------
(* TSLength *)

ts_length_make(bytes, chars) == [bytes |-> bytes, chars |-> chars]

ts_length_zero == [bytes |-> 0, chars |-> 0]

ts_length_eq(l1, l2) == l1.bytes = l2.bytes /\ l1.chars = l2.chars

\* Mutation: the byte count is never forced to 0.
ts_length_add_unpoisoned(l1, l2) ==
    [bytes |-> size_add(l1.bytes, l2.bytes), chars |-> size_add(l1.chars, l2.chars)]

\* Mutation: the test for an undetermined byte count forgets chars > 0.
ts_length_add_zero_bytes(l1, l2) ==
    LET bytes == size_add(l1.bytes, l2.bytes)
        chars == size_add(l1.chars, l2.chars)
    IN  IF l1.bytes = 0 \/ l2.bytes = 0
        THEN [bytes |-> 0, chars |-> chars]
        ELSE [bytes |-> bytes, chars |-> chars]

ts_length_add(l1, l2) ==
    LET bytes == size_add(l1.bytes, l2.bytes)
        chars == size_add(l1.chars, l2.chars)
    IN  IF (l1.chars > 0 /\ l1.bytes = 0) \/ (l2.chars > 0 /\ l2.bytes = 0)
        THEN [bytes |-> 0, chars |-> chars]
        ELSE [bytes |-> bytes, chars |-> chars]

\* Mutation: the byte count is never forced to 0.
ts_length_sub_unpoisoned(l1, l2) ==
    [bytes |-> size_sub(l1.bytes, l2.bytes), chars |-> size_sub(l1.chars, l2.chars)]

ts_length_sub(l1, l2) ==
    LET bytes == size_sub(l1.bytes, l2.bytes)
        chars == size_sub(l1.chars, l2.chars)
    IN  IF (l1.chars > 0 /\ l1.bytes = 0) \/ (l2.chars > 0 /\ l2.bytes = 0)
        THEN [bytes |-> 0, chars |-> chars]
        ELSE [bytes |-> bytes, chars |-> chars]

----------------------------------------------------------------------------
(* TSPoint *)

ts_point_make(line, column) == [line |-> line, column |-> column]

\* Mutation: both fields are always summed.
ts_point_add_both(p1, p2) ==
    [line |-> size_add(p1.line, p2.line), column |-> size_add(p1.column, p2.column)]

ts_point_add(p1, p2) ==
    LET line == size_add(p1.line, p2.line)
    IN  IF p2.line = 0
        THEN [line |-> line, column |-> size_add(p1.column, p2.column)]
        ELSE [line |-> line, column |-> p2.column]

\* Mutation: both fields are always differenced.
ts_point_sub_both(p1, p2) ==
    [line |-> size_sub(p1.line, p2.line), column |-> size_sub(p1.column, p2.column)]

ts_point_sub(p1, p2) ==
    IF p1.line = p2.line
    THEN [line |-> 0, column |-> size_sub(p1.column, p2.column)]
    ELSE [line |-> size_sub(p1.line, p2.line), column |-> p1.column]

----------------------------------------------------------------------------
(* Vocabulary of the properties *)

\* chars known, byte width not: chars > 0 and bytes == 0
Indeterminate(l) == l.chars > 0 /\ l.bytes = 0

\* the normal invariant of a length: bytes >= chars
Normal(l) == l.bytes >= l.chars

\* x - y in a word, written out by cases
WrappedDiff(x, y) == IF x >= y THEN x - y ELSE Modulus - (y - x)

\* x + y in a word, written out by cases
WrappedSum(x, y) == IF x + y < Modulus THEN x + y ELSE x + y - Modulus

SpanKind(l) ==
    IF Indeterminate(l) THEN "indeterminate"
    ELSE IF l.bytes > 0 THEN "determinate"
    ELSE "empty"

----------------------------------------------------------------------------
(* LengthSpec: one call of a length operation *)

LengthIdle ==
    /\ point1 = ts_point_make(0, 0) /\ point2 = ts_point_make(0, 0)
    /\ presult = ts_point_make(0, 0)
    /\ acc = ts_length_zero /\ lastKind = "none" /\ poisoned = FALSE
    /\ charsOverflowed = FALSE /\ bytesOverflowed = FALSE /\ operandsValid = TRUE

LengthInit ==
    /\ op = "none"
    /\ \E b1 \in Word, c1 \in Word : len1 = ts_length_make(b1, c1)
    /\ \E b2 \in Word, c2 \in Word : len2 = ts_length_make(b2, c2)
    /\ lresult = ts_length_zero
    /\ LengthIdle

LengthAdd ==
    /\ op = "none"
    /\ lresult' = ts_length_add(len1, len2)
    /\ op' = "add"
    /\ UNCHANGED << len1, len2, pointVars, accumVars >>

LengthSub ==
    /\ op = "none"
    /\ lresult' = ts_length_sub(len1, len2)
    /\ op' = "sub"
    /\ UNCHANGED << len1, len2, pointVars, accumVars >>

LengthAddZero ==
    /\ op = "none"
    /\ lresult' = ts_length_add(len1, ts_length_zero)
    /\ op' = "add_zero"
    /\ UNCHANGED << len1, len2, pointVars, accumVars >>

LengthSubZero ==
    /\ op = "none"
    /\ lresult' = ts_length_sub(len1, ts_length_zero)
    /\ op' = "sub_zero"
    /\ UNCHANGED << len1, len2, pointVars, accumVars >>

LengthSubThenAdd ==
    /\ op = "none"
    /\ lresult' = ts_length_add(ts_length_sub(len1, len2), len2)
    /\ op' = "sub_add"
    /\ UNCHANGED << len1, len2, pointVars, accumVars >>

LengthNext ==
    \/ LengthAdd
    \/ LengthSub
    \/ LengthAddZero
    \/ LengthSubZero
    \/ LengthSubThenAdd

LengthSpec == LengthInit /\ [][LengthNext]_vars

----------------------------------------------------------------------------
(* PointSpec: one call of a point operation *)

PointIdle ==
    /\ len1 = ts_length_zero /\ len2 = ts_length_zero /\ lresult = ts_length_zero
    /\ acc = ts_length_zero /\ lastKind = "none" /\ poisoned = FALSE
    /\ charsOverflowed = FALSE /\ bytesOverflowed = FALSE /\ operandsValid = TRUE

PointInit ==
    /\ op = "none"
    /\ \E l1 \in Word, c1 \in Word : point1 = ts_point_make(l1, c1)
    /\ \E l2 \in Word, c2 \in Word : point2 = ts_point_make(l2, c2)
    /\ presult = ts_point_make(0, 0)
    /\ PointIdle

PointAdd ==
    /\ op = "none"
    /\ presult' = ts_point_add(point1, point2)
    /\ op' = "add"
    /\ UNCHANGED << point1, point2, lengthVars, accumVars >>

PointSub ==
    /\ op = "none"
    /\ presult' = ts_point_sub(point1, point2)
    /\ op' = "sub"
    /\ UNCHANGED << point1, point2, lengthVars, accumVars >>

PointSubThenAdd ==
    /\ op = "none"
    /\ presult' = ts_point_add(point2, ts_point_sub(point1, point2))
    /\ op' = "sub_add"
    /\ UNCHANGED << point1, point2, lengthVars, accumVars >>

PointNext ==
    \/ PointAdd
    \/ PointSub
    \/ PointSubThenAdd

PointSpec == PointInit /\ [][PointNext]_vars

----------------------------------------------------------------------------
(* AccumSpec: a running length accumulated from ts_length_zero() *)

AccumInit ==
    /\ op = "none"
    /\ len1 = ts_length_zero /\ len2 = ts_length_zero /\ lresult = ts_length_zero
    /\ point1 = ts_point_make(0, 0) /\ point2 = ts_point_make(0, 0)
    /\ presult = ts_point_make(0, 0)
    /\ acc = ts_length_zero
    /\ lastKind = "none"
    /\ poisoned = FALSE
    /\ charsOverflowed = FALSE
    /\ bytesOverflowed = FALSE
    /\ operandsValid = TRUE

Accumulate ==
    \E b \in Word, c \in Word :
        LET span == ts_length_make(b, c)
        IN  /\ acc' = ts_length_add(acc, span)
            /\ op' = "add"
            /\ lastKind' = SpanKind(span)
            /\ poisoned' = (poisoned \/ Indeterminate(span))
            /\ charsOverflowed' = (charsOverflowed \/ acc.chars + span.chars >= Modulus)
            /\ bytesOverflowed' = (bytesOverflowed \/ acc.bytes + span.bytes >= Modulus)
            /\ operandsValid' = (operandsValid /\ (Normal(span) \/ Indeterminate(span)))
            /\ UNCHANGED << lengthVars, pointVars >>

AccumNext == Accumulate

AccumSpec == AccumInit /\ [][AccumNext]_vars

----------------------------------------------------------------------------
(* Properties of LengthSpec *)

\* C1: ts_length_add(a, b) has chars = a.chars + b.chars modulo the word, and
\* bytes = 0 when a or b is indeterminate, a.bytes + b.bytes modulo the word
\* otherwise.
C1_AddResult ==
    op = "add" =>
        /\ lresult.chars = WrappedSum(len1.chars, len2.chars)
        /\ lresult.bytes = IF Indeterminate(len1) \/ Indeterminate(len2)
                           THEN 0
                           ELSE WrappedSum(len1.bytes, len2.bytes)

\* add((bytes 0, chars 5), (bytes 6, chars 2)) = (bytes 0, chars 7)
C1_Witness ==
    /\ op = "add"
    /\ len1 = [bytes |-> 0, chars |-> 5]
    /\ len2 = [bytes |-> 6, chars |-> 2]
    /\ lresult = [bytes |-> 0, chars |-> 7]

\* C2: ts_length_sub(a, b) can always be called and has chars = a.chars - b.chars
\* wrapped modulo the word, also when b.chars > a.chars, and bytes = 0 when a or
\* b is indeterminate, a.bytes - b.bytes wrapped modulo the word otherwise.
C2_SubResult ==
    /\ op = "none" => ENABLED LengthSub
    /\ op = "sub" =>
        /\ lresult.chars = WrappedDiff(len1.chars, len2.chars)
        /\ lresult.bytes = IF Indeterminate(len1) \/ Indeterminate(len2)
                           THEN 0
                           ELSE WrappedDiff(len1.bytes, len2.bytes)

\* a subtraction whose chars and bytes both wrap
C2_Witness ==
    /\ op = "sub"
    /\ len2.chars > len1.chars
    /\ len2.bytes > len1.bytes
    /\ ~Indeterminate(len1) /\ ~Indeterminate(len2)
    /\ lresult.chars = Modulus - (len2.chars - len1.chars)
    /\ lresult.bytes = Modulus - (len2.bytes - len1.bytes)

\* C3 as stated: when a or b is indeterminate, ts_length_add(a, b) and
\* ts_length_sub(a, b) are indeterminate (chars > 0 and bytes == 0).
C3_IndeterminatePropagates ==
    (op \in {"add", "sub"} /\ (Indeterminate(len1) \/ Indeterminate(len2)))
        => Indeterminate(lresult)

\* C3 amended: when a or b is indeterminate, ts_length_add(a, b) and
\* ts_length_sub(a, b) have bytes == 0, and are indeterminate unless the chars
\* of the result are 0: a.chars == b.chars for sub, a.chars + b.chars equal to
\* 2^w for add.
C3_PoisonedBytes ==
    (op \in {"add", "sub"} /\ (Indeterminate(len1) \/ Indeterminate(len2))) =>
        /\ lresult.bytes = 0
        /\ (op = "add" /\ len1.chars + len2.chars # Modulus) => Indeterminate(lresult)
        /\ (op = "sub" /\ len1.chars # len2.chars) => Indeterminate(lresult)

\* sub of an indeterminate length from a determinate one, chars differing
C3_Witness ==
    /\ op = "sub"
    /\ len1.bytes > 0
    /\ Indeterminate(len2)
    /\ len1.chars # len2.chars
    /\ Indeterminate(lresult)

\* C5: ts_length_zero() is a right identity of add and of sub, under
\* ts_length_eq, for every length, indeterminate ones included.
C5_ZeroRightIdentity ==
    /\ op = "add_zero" => ts_length_eq(lresult, len1)
    /\ op = "sub_zero" => ts_length_eq(lresult, len1)

\* the identity on an indeterminate length
C5_Witness ==
    /\ op \in {"add_zero", "sub_zero"}
    /\ Indeterminate(len1)
    /\ ts_length_eq(lresult, len1)

\* C9 as stated: for determinate a and b with a.bytes >= b.bytes and
\* a.chars >= b.chars, ts_length_add(ts_length_sub(a, b), b) equals a.
C9_SubThenAddRestores ==
    ( /\ op = "sub_add"
      /\ ~Indeterminate(len1) /\ ~Indeterminate(len2)
      /\ len1.bytes >= len2.bytes /\ len1.chars >= len2.chars )
        => lresult = len1

\* C9 amended: for determinate a and b with a.bytes >= b.bytes and
\* a.chars >= b.chars whose difference is determinate too (a.bytes > b.bytes
\* or a.chars == b.chars), ts_length_add(ts_length_sub(a, b), b) equals a.
C9_SubThenAddRestoresDeterminate ==
    ( /\ op = "sub_add"
      /\ ~Indeterminate(len1) /\ ~Indeterminate(len2)
      /\ len1.bytes >= len2.bytes /\ len1.chars >= len2.chars
      /\ (len1.bytes > len2.bytes \/ len1.chars = len2.chars) )
        => lresult = len1

\* sub then add of (bytes 2, chars 1) on (bytes 5, chars 4)
C9_Witness ==
    /\ op = "sub_add"
    /\ len1 = [bytes |-> 5, chars |-> 4]
    /\ len2 = [bytes |-> 2, chars |-> 1]
    /\ lresult = len1

----------------------------------------------------------------------------
(* Properties of PointSpec *)

\* C6: ts_point_add(p1, p2) is (p1.line, p1.column + p2.column) when
\* p2.line == 0 and (p1.line + p2.line, p2.column) when p2.line > 0, the sums
\* being those of the unsigned word.
C6_PointAddResult ==
    op = "add" =>
        /\ point2.line = 0 =>
            presult = [line |-> point1.line,
                       column |-> WrappedSum(point1.column, point2.column)]
        /\ point2.line > 0 =>
            presult = [line |-> WrappedSum(point1.line, point2.line),
                       column |-> point2.column]

\* add((2, 5), (1, 3)) = (3, 3): the column of p1 is dropped
C6_Witness ==
    /\ op = "add"
    /\ point1 = [line |-> 2, column |-> 5]
    /\ point2 = [line |-> 1, column |-> 3]
    /\ presult = [line |-> 3, column |-> 3]

\* C7: ts_point_sub(p1, p2) is (0, p1.column - p2.column) when the lines are
\* equal and (p1.line - p2.line, p1.column) when they differ, the differences
\* wrapping in the unsigned word.
C7_PointSubResult ==
    op = "sub" =>
        /\ point1.line = point2.line =>
            presult = [line |-> 0,
                       column |-> WrappedDiff(point1.column, point2.column)]
        /\ point1.line # point2.line =>
            presult = [line |-> WrappedDiff(point1.line, point2.line),
                       column |-> point1.column]

\* sub((4, 7), (2, 3)) = (2, 7): the column is not differenced
C7_Witness ==
    /\ op = "sub"
    /\ point1 = [line |-> 4, column |-> 7]
    /\ point2 = [line |-> 2, column |-> 3]
    /\ presult = [line |-> 2, column |-> 7]

\* C8: ts_point_add(p2, ts_point_sub(p1, p2)) equals p1 field for field, for
\* all points p1 and p2.
C8_PointSubThenAdd ==
    op = "sub_add" => (presult.line = point1.line /\ presult.column = point1.column)

\* p2 = (2, 3) precedes p1 = (4, 7) on an earlier line
C8_Witness ==
    /\ op = "sub_add"
    /\ point1 = [line |-> 4, column |-> 7]
    /\ point2 = [line |-> 2, column |-> 3]
    /\ presult = point1

----------------------------------------------------------------------------
(* Properties of AccumSpec *)

\* C4: once an indeterminate span has been added to the running length, and
\* while chars has not overflowed, the running length has bytes == 0 and
\* chars > 0 after that add and after every later one.
C4_PoisonPersists ==
    (poisoned /\ ~charsOverflowed) => (acc.bytes = 0 /\ acc.chars > 0)

\* a determinate span with bytes > 0 added after the indeterminate one
C4_Witness ==
    /\ poisoned
    /\ ~charsOverflowed
    /\ lastKind = "determinate"
    /\ acc.bytes = 0
    /\ acc.chars > 0

\* C10: a running length built from ts_length_zero() by adding spans that are
\* each normal or indeterminate is normal or indeterminate, while no field
\* has overflowed; it never has 0 < bytes < chars.
C10_NormalOrIndeterminate ==
    (operandsValid /\ ~charsOverflowed /\ ~bytesOverflowed) =>
        /\ Normal(acc) \/ Indeterminate(acc)
        /\ ~(0 < acc.bytes /\ acc.bytes < acc.chars)

\* a normal running length with bytes > chars > 0, reached by a determinate add
C10_Witness ==
    /\ operandsValid /\ ~charsOverflowed /\ ~bytesOverflowed
    /\ ~poisoned
    /\ lastKind = "determinate"
    /\ acc.bytes > acc.chars
    /\ acc.chars > 0

====
